---- MODULE Spec2Model ----
(***************************************************************************)
(* Model of amazon_job_monitor.py: the AmazonJobMonitor class (snapshot    *)
(* load/save, page extraction, diff, email notification) and the monitor   *)
(* loop run() with main().                                                 *)
(*                                                                         *)
(* Strings are sequences of code points (naturals), so that ordering,      *)
(* substring search and stripping are computed, not assumed.  A dict is a  *)
(* sequence of <<key, value>> pairs with distinct keys, in insertion order *)
(* (Python dicts keep insertion order; equality ignores it).               *)
(***************************************************************************)
EXTENDS Integers, Sequences, FiniteSets, TLC

VARIABLES
    pc,             \* position of the process in main()/run()
    previous_jobs,  \* self.previous_jobs, the in-memory baseline
    file,           \* previous_jobs.json on disk: [exists, text]
    current_jobs,   \* run(): local current_jobs
    added,          \* run(): local added
    removed,        \* run(): local removed
    log,            \* log records emitted since the start of the cycle
    fetch_ok,       \* did the HTTP GET of this cycle succeed
    notified,       \* send_email was invoked in this cycle
    notify_result,  \* how the send_email call of this cycle ended
    saved,          \* _save_current_jobs was invoked in this cycle
    save_result,    \* how the _save_current_jobs call of this cycle ended
    first_cycle,    \* TRUE during the first iteration of the loop
    cycle_prev,     \* previous_jobs at the start of the cycle
    cycle_file,     \* file at the start of the cycle
    interrupted,    \* a KeyboardInterrupt (SIGINT) was delivered
    exit_status,    \* exit status of the process once pc = "done"
    diff_pc,        \* Differ harness: position
    diff_A,         \* Differ harness: first mapping
    diff_B,         \* Differ harness: second mapping
    diff_AB,        \* Differ harness: compare_jobs with previous = A, current = B
    diff_BA,        \* Differ harness: compare_jobs with previous = B, current = A
    store_pc,       \* Snapshot Store harness: position
    store_M,        \* Snapshot Store harness: the mapping handed to save
    store_file,     \* Snapshot Store harness: the file
    store_loaded,   \* Snapshot Store harness: what load returned after the save
    ext_pc,         \* Extractor harness: position
    ext_page,       \* Extractor harness: the page, its elements in document order
    ext_result      \* Extractor harness: what fetch_rheinland_jobs returned

vars == <<pc, previous_jobs, file, current_jobs, added, removed, log, fetch_ok,
          notified, notify_result, saved, save_result, first_cycle, cycle_prev,
          cycle_file, interrupted, exit_status,
          diff_pc, diff_A, diff_B, diff_AB, diff_BA,
          store_pc, store_M, store_file, store_loaded,
          ext_pc, ext_page, ext_result>>

runVars == <<pc, previous_jobs, file, current_jobs, added, removed, log, fetch_ok,
             notified, notify_result, saved, save_result, first_cycle, cycle_prev,
             cycle_file, interrupted, exit_status>>

diffVars == <<diff_pc, diff_A, diff_B, diff_AB, diff_BA>>

storeVars == <<store_pc, store_M, store_file, store_loaded>>

extVars == <<ext_pc, ext_page, ext_result>>

harnessVars == <<diffVars, storeVars, extVars>>

(***************************************************************************)
(* Bounds                                                                  *)
(***************************************************************************)
\* longest page (number of elements in document order) the fetch returns
MaxNodes == 3
\* most entries of a mapping handed to the Differ harness
MaxDiffKeys == 2
\* most entries of a mapping handed to the Snapshot Store harness
MaxStoreKeys == 2
\* longest page (number of elements) handed to the Extractor harness
MaxDocLen == 5

(***************************************************************************)
(* Strings                                                                 *)
(***************************************************************************)
\* code points used in the model
LF == 10
SP == 32
\* "B" < "a" in code-point order although "a" < "B" case-insensitively
Title_A == <<65>>
Title_B == <<66>>
Title_a == <<97>>
\* the region marker "Rheinland", abbreviated to "Rh"
MARKER == <<82, 104>>
\* heading texts: "Rh-P" (Rheinland-Pfalz) and "S" (Saarland)
Text_RheinlandPfalz == <<82, 104, 45, 80>>
Text_Saarland == <<83>>

Min(a, b) == IF a <= b THEN a ELSE b

\* Python str.__lt__: lexicographic by code point
StrLess(s, t) ==
    \E i \in 1..(Min(Len(s), Len(t)) + 1) :
        /\ \A j \in 1..(i - 1) : s[j] = t[j]
        /\ \/ (i > Len(s) /\ i <= Len(t))
           \/ (i <= Len(s) /\ i <= Len(t) /\ s[i] < t[i])

\* Python `sub in s`
Contains(s, sub) ==
    \E i \in 0..(Len(s) - Len(sub)) :
        \A j \in 1..Len(sub) : s[i + j] = sub[j]

IsSpace(c) == c \in {SP, LF}

RECURSIVE LStrip(_)
LStrip(s) == IF s # <<>> /\ IsSpace(Head(s)) THEN LStrip(Tail(s)) ELSE s

RECURSIVE RStrip(_)
RStrip(s) ==
    IF s # <<>> /\ IsSpace(s[Len(s)]) THEN RStrip(SubSeq(s, 1, Len(s) - 1)) ELSE s

\* Python str.strip()
Strip(s) == RStrip(LStrip(s))

(***************************************************************************)
(* Dicts                                                                   *)
(***************************************************************************)
Range(s) == {s[i] : i \in DOMAIN s}

EmptyDict == <<>>

Keys(d) == {d[i][1] : i \in DOMAIN d}

HasKey(d, k) == \E i \in DOMAIN d : d[i][1] = k

\* d.get(k, default)
DictGet(d, k, default) ==
    IF HasKey(d, k) THEN d[CHOOSE i \in DOMAIN d : d[i][1] = k][2] ELSE default

\* an assignment that leaves the value of an existing key alone
DictSet_KeepFirst(d, k, v) ==
    IF HasKey(d, k) THEN d ELSE Append(d, <<k, v>>)

\* d[k] = v : an existing key keeps its position, a new key is appended
DictSet(d, k, v) ==
    IF HasKey(d, k)
    THEN [i \in DOMAIN d |-> IF d[i][1] = k THEN <<k, v>> ELSE d[i]]
    ELSE Append(d, <<k, v>>)

\* Python dict ==
DictEq(d, e) ==
    /\ Keys(d) = Keys(e)
    /\ \A k \in Keys(d) : DictGet(d, k, <<>>) = DictGet(e, k, <<>>)

\* Python sorted() over a set of strings
RECURSIVE sorted(_)
sorted(S) ==
    IF S = {} THEN <<>>
    ELSE LET m == CHOOSE x \in S : \A y \in S \ {x} : StrLess(x, y)
         IN  <<m>> \o sorted(S \ {m})

(***************************************************************************)
(* Snapshot Store: previous_jobs.json                                      *)
(* The text of the file is a sequence of JSON tokens <<kind, key, value>>. *)
(***************************************************************************)
LBrace == <<"{", <<>>, <<>>>>
RBrace == <<"}", <<>>, <<>>>>
LBracket == <<"[", <<>>, <<>>>>
RBracket == <<"]", <<>>, <<>>>>
Member(k, v) == <<"member", k, v>>

NoFile == [exists |-> FALSE, text |-> <<>>]
FileWith(t) == [exists |-> TRUE, text |-> t]

\* json.dump(jobs, f, indent=2, ensure_ascii=False): the members in insertion order
json_dump(jobs) ==
    <<LBrace>> \o [i \in DOMAIN jobs |-> Member(jobs[i][1], jobs[i][2])] \o <<RBrace>>

RECURSIVE MembersToDict(_, _)
MembersToDict(ms, d) ==
    IF ms = <<>> THEN d
    ELSE MembersToDict(Tail(ms), DictSet(d, Head(ms)[2], Head(ms)[3]))

\* json.load(f): a JSON object gives a dict (a repeated name keeps the last
\* value), a JSON array gives a list, anything else raises
json_load(text) ==
    IF /\ Len(text) >= 2
       /\ text[1] = LBrace
       /\ text[Len(text)] = RBrace
       /\ \A i \in 2..(Len(text) - 1) : text[i][1] = "member"
    THEN [raised |-> FALSE, isdict |-> TRUE,
          data |-> MembersToDict(SubSeq(text, 2, Len(text) - 1), EmptyDict)]
    ELSE IF text = <<LBracket, RBracket>>
    THEN [raised |-> FALSE, isdict |-> FALSE, data |-> EmptyDict]
    ELSE [raised |-> TRUE, isdict |-> FALSE, data |-> EmptyDict]

\* a load that keeps the members read before the text stopped parsing
_load_previous_jobs_Lenient(f) ==
    IF f.exists
    THEN LET r == json_load(f.text)
         IN  IF r.raised
             THEN [jobs |-> MembersToDict(SelectSeq(f.text, LAMBDA t : t[1] = "member"),
                                          EmptyDict),
                   log |-> {"WARNING: Failed to load previous jobs"}]
             ELSE IF r.isdict
             THEN [jobs |-> r.data, log |-> {}]
             ELSE [jobs |-> EmptyDict, log |-> {}]
    ELSE [jobs |-> EmptyDict, log |-> {}]

\* _load_previous_jobs(): the mapping returned and the records logged
_load_previous_jobs(f) ==
    IF f.exists
    THEN LET r == json_load(f.text)
         IN  IF r.raised
             THEN [jobs |-> EmptyDict, log |-> {"WARNING: Failed to load previous jobs"}]
             ELSE IF r.isdict
             THEN [jobs |-> r.data, log |-> {}]
             ELSE [jobs |-> EmptyDict, log |-> {}]
    ELSE [jobs |-> EmptyDict, log |-> {}]

(***************************************************************************)
(* Fetcher and Extractor: fetch_rheinland_jobs                             *)
(***************************************************************************)
SLASH == 47
COLON == 58
\* JOBS_URL, abbreviated to "h://z/g" (scheme h, host z, path /g)
JOBS_URL == <<104, COLON, SLASH, SLASH, 122, SLASH, 103>>

startswith(s, c) == Len(s) >= 1 /\ s[1] = c

\* index of the first "/" of the path of an absolute URL (Len + 1 if none)
PathStart(url) ==
    LET a == CHOOSE i \in 1..Len(url) : url[i] = COLON
        cands == {i \in (a + 3)..Len(url) : url[i] = SLASH}
    IN  IF cands = {} THEN Len(url) + 1
        ELSE CHOOSE i \in cands : \A j \in cands : i <= j

\* index of the last "/" of an absolute URL at or after its path start (0 if none)
LastSlash(url) ==
    LET cands == {i \in PathStart(url)..Len(url) : url[i] = SLASH}
    IN  IF cands = {} THEN 0
        ELSE CHOOSE i \in cands : \A j \in cands : j <= i

\* requests.compat.urljoin(base, link) for an absolute base
urljoin(base, link) ==
    IF link = <<>> THEN base
    ELSE IF \E i \in 1..Len(link) : link[i] = COLON THEN link
    ELSE IF Len(link) >= 2 /\ link[1] = SLASH /\ link[2] = SLASH
    THEN SubSeq(base, 1, CHOOSE i \in 1..Len(base) : base[i] = COLON) \o link
    ELSE IF startswith(link, SLASH)
    THEN SubSeq(base, 1, PathStart(base) - 1) \o link
    ELSE IF LastSlash(base) = 0 THEN base \o <<SLASH>> \o link
    ELSE SubSeq(base, 1, LastSlash(base)) \o link

Heading(txt, level) == [name |-> level, text |-> txt, has_href |-> FALSE, href |-> <<>>]
Link(txt, h) == [name |-> "a", text |-> txt, has_href |-> TRUE, href |-> h]
LinkNoHref(txt) == [name |-> "a", text |-> txt, has_href |-> FALSE, href |-> <<>>]
Para == [name |-> "p", text |-> <<>>, has_href |-> FALSE, href |-> <<>>]

\* hrefs "/1" (root-relative), "2" (path-relative), "/3"
Href_Root1 == <<SLASH, 49>>
Href_Rel2 == <<50>>
Href_Root3 == <<SLASH, 51>>

\* the elements a fetched page is made of
NodeSet ==
    { Heading(Text_RheinlandPfalz, "h4"),
      Heading(Text_Saarland, "h3"),
      Link(Title_A, Href_Root1),
      Link(Title_B, Href_Rel2),
      Link(<<SP>> \o Title_A, Href_Root3),
      LinkNoHref(Title_B),
      Para }

\* a page: its elements in document order
Pages == UNION {[1..n -> NodeSet] : n \in 0..MaxNodes}

IsTrackedHeading(node) == node.name \in {"h4", "h3"}

\* soup.find(lambda tag: tag.name in ["h4", "h3"] and "Rheinland" in tag.get_text()):
\* index of the first such element, 0 if none
FindHeading(page) ==
    LET hs == {i \in DOMAIN page : IsTrackedHeading(page[i]) /\ Contains(page[i].text, MARKER)}
    IN  IF hs = {} THEN 0 ELSE CHOOSE i \in hs : \A j \in hs : i <= j

\* a loop that does not stop at the next heading
RECURSIVE CollectLinks_NoStop(_, _, _)
CollectLinks_NoStop(page, i, jobs) ==
    IF i > Len(page) THEN jobs
    ELSE IF page[i].name = "a"
    THEN LET title == Strip(page[i].text)
             link == page[i].href
         IN  IF ~page[i].has_href \/ link = <<>>
             THEN CollectLinks_NoStop(page, i + 1, jobs)
             ELSE IF startswith(link, SLASH)
             THEN CollectLinks_NoStop(page, i + 1,
                                      DictSet(jobs, title, urljoin(JOBS_URL, link)))
             ELSE CollectLinks_NoStop(page, i + 1, DictSet(jobs, title, link))
    ELSE CollectLinks_NoStop(page, i + 1, jobs)

\* the loop over heading.find_all_next(), from element i on
RECURSIVE CollectLinks(_, _, _)
CollectLinks(page, i, jobs) ==
    IF i > Len(page) THEN jobs
    ELSE IF IsTrackedHeading(page[i]) THEN jobs
    ELSE IF page[i].name = "a"
    THEN LET title == Strip(page[i].text)
             link == page[i].href
         IN  IF ~page[i].has_href \/ link = <<>>
             THEN CollectLinks(page, i + 1, jobs)
             ELSE IF startswith(link, SLASH)
             THEN CollectLinks(page, i + 1, DictSet(jobs, title, urljoin(JOBS_URL, link)))
             ELSE CollectLinks(page, i + 1, DictSet(jobs, title, link))
    ELSE CollectLinks(page, i + 1, jobs)

\* the HTTP responses: a transport error or non-2xx status, or a page
Responses == {[ok |-> FALSE, page |-> <<>>]} \cup {[ok |-> TRUE, page |-> p] : p \in Pages}

\* an extraction that falls back to the links of the whole page when the
\* heading is missing
fetch_rheinland_jobs_WholePage(response) ==
    IF ~response.ok
    THEN [ok |-> FALSE, found |-> FALSE, jobs |-> EmptyDict, log |-> {"ERROR: Error fetching"}]
    ELSE LET h == FindHeading(response.page)
         IN  IF h = 0
             THEN [ok |-> TRUE, found |-> FALSE,
                   jobs |-> CollectLinks(response.page, 1, EmptyDict),
                   log |-> {"WARNING: section not found"}]
             ELSE [ok |-> TRUE, found |-> TRUE,
                   jobs |-> CollectLinks(response.page, h + 1, EmptyDict), log |-> {}]

\* fetch_rheinland_jobs(): the mapping returned and the records logged
fetch_rheinland_jobs(response) ==
    IF ~response.ok
    THEN [ok |-> FALSE, found |-> FALSE, jobs |-> EmptyDict, log |-> {"ERROR: Error fetching"}]
    ELSE LET h == FindHeading(response.page)
         IN  IF h = 0
             THEN [ok |-> TRUE, found |-> FALSE, jobs |-> EmptyDict,
                   log |-> {"WARNING: section not found"}]
             ELSE [ok |-> TRUE, found |-> TRUE,
                   jobs |-> CollectLinks(response.page, h + 1, EmptyDict), log |-> {}]

\* what one call of fetch_rheinland_jobs can return
FetchResults == {fetch_rheinland_jobs(r) : r \in Responses}

(***************************************************************************)
(* Differ: compare_jobs                                                    *)
(***************************************************************************)
\* the keys of d in insertion order
KeysSeq(d) == [i \in DOMAIN d |-> d[i][1]]

\* a diff that leaves the keys in insertion order instead of sorting them
compare_jobs_Unsorted(previous, current) ==
    <<SelectSeq(KeysSeq(current), LAMBDA k : k \notin Keys(previous)),
      SelectSeq(KeysSeq(previous), LAMBDA k : k \notin Keys(current))>>

\* a diff over the (key, URL) items instead of the keys
compare_jobs_ByItems(previous, current) ==
    <<sorted({it[1] : it \in Range(current) \ Range(previous)}),
      sorted({it[1] : it \in Range(previous) \ Range(current)})>>

\* a diff that forgets to take the previous titles out of the additions
compare_jobs_NoSubtract(previous, current) ==
    <<sorted(Keys(current)), sorted(Keys(previous) \ Keys(current))>>

\* compare_jobs(current_jobs) on self.previous_jobs: <<added, removed>>
compare_jobs(previous, current) ==
    LET previous_titles == Keys(previous)
        current_titles == Keys(current)
    IN  <<sorted(current_titles \ previous_titles), sorted(previous_titles \ current_titles)>>

(***************************************************************************)
(* Notifier: send_email                                                    *)
(***************************************************************************)
COMMA == 44

\* os.getenv(name): None when the variable is not set
None == [set |-> FALSE, val |-> <<>>]
Str(v) == [set |-> TRUE, val |-> v]

\* Python truthiness of an Optional[str]
Truthy(v) == v.set /\ v.val # <<>>

\* s.split(","): the pieces between the commas
RECURSIVE split(_, _, _)
split(s, cur, acc) ==
    IF s = <<>> THEN Append(acc, cur)
    ELSE IF Head(s) = COMMA THEN split(Tail(s), <<>>, Append(acc, cur))
    ELSE split(Tail(s), Append(cur, Head(s)), acc)

\* [addr.strip() for addr in recipients.split(",") if addr.strip()]
RECURSIVE StripNonEmpty(_)
StripNonEmpty(pieces) ==
    IF pieces = <<>> THEN <<>>
    ELSE IF Strip(Head(pieces)) = <<>> THEN StripNonEmpty(Tail(pieces))
    ELSE <<Strip(Head(pieces))>> \o StripNonEmpty(Tail(pieces))

to_addresses(recipients) == StripNonEmpty(split(recipients, <<>>, <<>>))

\* ", ".join(to_addresses)
RECURSIVE join(_)
join(addrs) ==
    IF addrs = <<>> THEN <<>>
    ELSE IF Len(addrs) = 1 THEN Head(addrs)
    ELSE Head(addrs) \o <<COMMA, SP>> \o join(Tail(addrs))

\* EmailMessage.__setitem__ raises ValueError on a header value with CR or LF
HeaderRaises(value) == \E i \in DOMAIN value : value[i] = LF

IsDigit(c) == c \in 48..57

\* int(smtp_port) raises ValueError unless the text is a decimal number
IntRaises(s) == s = <<>> \/ \E i \in DOMAIN s : ~IsDigit(s[i])

RECURSIVE int(_)
int(s) == IF s = <<>> THEN 0 ELSE 10 * int(SubSeq(s, 1, Len(s) - 1)) + (s[Len(s)] - 48)

\* the port that selects implicit SSL
SSL_PORT == 465

\* the environments send_email can find
Envs ==
    [ SMTP_HOST     : {None, Str(<<122>>)},
      SMTP_PORT     : {None, Str(<<52, 54, 53>>), Str(<<53, 56, 55>>), Str(<<120>>)},
      SMTP_USERNAME : {None, Str(<<117>>)},
      SMTP_PASSWORD : {None, Str(<<>>), Str(<<112>>)},
      SENDER_EMAIL  : {None, Str(<<115>>), Str(<<115, LF, 115>>)},
      RECIPIENTS    : {None, Str(<<>>), Str(<<COMMA>>), Str(<<SP, COMMA, SP>>),
                       Str(<<97>>), Str(<<97, COMMA, SP, 98, LF>>),
                       Str(<<97, LF, 98>>)} ]

\* a send_email without the try/except around the SMTP session
send_email_NoTry(env, smtp_ok) ==
    IF ~(/\ Truthy(env.SMTP_HOST) /\ Truthy(env.SMTP_PORT) /\ Truthy(env.SMTP_USERNAME)
         /\ Truthy(env.SMTP_PASSWORD) /\ Truthy(env.SENDER_EMAIL) /\ Truthy(env.RECIPIENTS))
    THEN [outcome |-> "skipped_config", raised |-> FALSE,
          log |-> {"WARNING: SMTP credentials not fully set"}]
    ELSE IF to_addresses(env.RECIPIENTS.val) = <<>>
    THEN [outcome |-> "skipped_no_recipients", raised |-> FALSE,
          log |-> {"WARNING: No recipient addresses provided"}]
    ELSE IF HeaderRaises(env.SENDER_EMAIL.val)
            \/ HeaderRaises(join(to_addresses(env.RECIPIENTS.val)))
    THEN [outcome |-> "header_error", raised |-> TRUE, log |-> {}]
    ELSE IF IntRaises(env.SMTP_PORT.val) \/ ~smtp_ok
    THEN [outcome |-> "delivery_failed", raised |-> TRUE, log |-> {}]
    ELSE [outcome |-> IF int(env.SMTP_PORT.val) = SSL_PORT THEN "sent_ssl" ELSE "sent_starttls",
          raised |-> FALSE, log |-> {"INFO: Notification email sent"}]

\* send_email(subject, body) in environment env, the SMTP session succeeding
\* or raising (smtp_ok): how the call ends and the records it logs
send_email(env, smtp_ok) ==
    IF ~(/\ Truthy(env.SMTP_HOST) /\ Truthy(env.SMTP_PORT) /\ Truthy(env.SMTP_USERNAME)
         /\ Truthy(env.SMTP_PASSWORD) /\ Truthy(env.SENDER_EMAIL) /\ Truthy(env.RECIPIENTS))
    THEN [outcome |-> "skipped_config", raised |-> FALSE,
          log |-> {"WARNING: SMTP credentials not fully set"}]
    ELSE IF to_addresses(env.RECIPIENTS.val) = <<>>
    THEN [outcome |-> "skipped_no_recipients", raised |-> FALSE,
          log |-> {"WARNING: No recipient addresses provided"}]
    ELSE IF HeaderRaises(env.SENDER_EMAIL.val)
            \/ HeaderRaises(join(to_addresses(env.RECIPIENTS.val)))
    THEN [outcome |-> "header_error", raised |-> TRUE, log |-> {}]
    ELSE IF IntRaises(env.SMTP_PORT.val)
    THEN [outcome |-> "delivery_failed", raised |-> FALSE,
          log |-> {"ERROR: Failed to send notification email"}]
    ELSE IF ~smtp_ok
    THEN [outcome |-> "delivery_failed", raised |-> FALSE,
          log |-> {"ERROR: Failed to send notification email"}]
    ELSE [outcome |-> IF int(env.SMTP_PORT.val) = SSL_PORT THEN "sent_ssl" ELSE "sent_starttls",
          raised |-> FALSE, log |-> {"INFO: Notification email sent"}]

\* how one call of send_email can end
NotifyResults == {send_email(e, ok) : e \in Envs, ok \in BOOLEAN}

NotInvoked == "not_invoked"

(***************************************************************************)
(* Monitor Loop: main() and run()                                          *)
(***************************************************************************)
\* process exit statuses: main() returning 0 or 1, an uncaught KeyboardInterrupt
EXIT_OK == 0
EXIT_ERROR == 1
EXIT_SIGINT == 130
Running == <<>>
Exited(code) == <<code>>

\* a loop that only looks at the additions
ChangeDetected_AddedOnly(a, r) == a # <<>>

\* run(): `if added or removed:`
ChangeDetected(a, r) == a # <<>> \/ r # <<>>

\* the mappings an earlier run can have left in the snapshot file
SnapshotMappings == {r.jobs : r \in FetchResults}

\* what previous_jobs.json can hold when the process starts: nothing at all,
\* an empty or cut-off file, text that is no JSON, a JSON array, a snapshot
StartFiles ==
    {NoFile, FileWith(<<>>), FileWith(<<LBrace>>),
     FileWith(<<LBrace, Member(Title_A, urljoin(JOBS_URL, Href_Root1))>>),
     FileWith(<<RBrace, LBrace>>), FileWith(<<LBracket, RBracket>>)}
    \cup {FileWith(json_dump(m)) : m \in SnapshotMappings}

DiffIdle ==
    /\ diff_pc = "off"
    /\ diff_A = EmptyDict
    /\ diff_B = EmptyDict
    /\ diff_AB = <<<<>>, <<>>>>
    /\ diff_BA = <<<<>>, <<>>>>

StoreIdle ==
    /\ store_pc = "off"
    /\ store_M = EmptyDict
    /\ store_file = NoFile
    /\ store_loaded = EmptyDict

ExtIdle ==
    /\ ext_pc = "off"
    /\ ext_page = <<>>
    /\ ext_result = EmptyDict

\* main(): AmazonJobMonitor(check_interval=120), about to enter the loop of run()
Init ==
    /\ file \in StartFiles
    /\ previous_jobs = _load_previous_jobs(file).jobs
    /\ log = _load_previous_jobs(file).log
    /\ pc = "fetch"
    /\ current_jobs = EmptyDict
    /\ added = <<>>
    /\ removed = <<>>
    /\ fetch_ok = FALSE
    /\ notified = FALSE
    /\ notify_result = NotInvoked
    /\ saved = FALSE
    /\ save_result = NotInvoked
    /\ first_cycle = TRUE
    /\ cycle_prev = previous_jobs
    /\ cycle_file = file
    /\ interrupted = FALSE
    /\ exit_status = Running
    /\ DiffIdle
    /\ StoreIdle
    /\ ExtIdle

\* run(): current_jobs = self.fetch_rheinland_jobs(); added, removed =
\* self.compare_jobs(current_jobs); `if added or removed:`
Fetch ==
    /\ pc = "fetch"
    /\ \E r \in FetchResults :
        /\ current_jobs' = r.jobs
        /\ fetch_ok' = r.ok
        /\ log' = log \cup r.log
        /\ added' = compare_jobs(previous_jobs, r.jobs)[1]
        /\ removed' = compare_jobs(previous_jobs, r.jobs)[2]
        /\ pc' = IF ChangeDetected(compare_jobs(previous_jobs, r.jobs)[1],
                                   compare_jobs(previous_jobs, r.jobs)[2])
                 THEN "notify" ELSE "sleep"
    /\ UNCHANGED <<previous_jobs, file, notified, notify_result, saved, save_result,
                   first_cycle, cycle_prev, cycle_file, interrupted, exit_status>>
    /\ UNCHANGED harnessVars

\* run(): self.send_email(subject, body) returns
Notify ==
    /\ pc = "notify"
    /\ \E r \in NotifyResults :
        /\ ~r.raised
        /\ notify_result' = r.outcome
        /\ log' = log \cup {"INFO: Change detected"} \cup r.log
    /\ notified' = TRUE
    /\ pc' = "update"
    /\ UNCHANGED <<previous_jobs, file, current_jobs, added, removed, fetch_ok, saved,
                   save_result, first_cycle, cycle_prev, cycle_file, interrupted,
                   exit_status>>
    /\ UNCHANGED harnessVars

\* run(): self.send_email raises ValueError while building the message;
\* main(): `except Exception` logs and returns 1
NotifyRaises ==
    /\ pc = "notify"
    /\ \E r \in NotifyResults :
        /\ r.raised
        /\ notify_result' = r.outcome
        /\ log' = log \cup {"INFO: Change detected"} \cup r.log
                      \cup {"ERROR: Unexpected error in monitor"}
    /\ notified' = TRUE
    /\ pc' = "done"
    /\ exit_status' = Exited(EXIT_ERROR)
    /\ UNCHANGED <<previous_jobs, file, current_jobs, added, removed, fetch_ok, saved,
                   save_result, first_cycle, cycle_prev, cycle_file, interrupted>>
    /\ UNCHANGED harnessVars

\* a loop that forgets to advance the baseline
UpdateBaseline_Forgotten ==
    /\ pc = "update"
    /\ previous_jobs' = previous_jobs
    /\ pc' = "save"
    /\ UNCHANGED <<file, current_jobs, added, removed, log, fetch_ok, notified,
                   notify_result, saved, save_result, first_cycle, cycle_prev,
                   cycle_file, interrupted, exit_status>>
    /\ UNCHANGED harnessVars

\* run(): self.previous_jobs = current_jobs
UpdateBaseline ==
    /\ pc = "update"
    /\ previous_jobs' = current_jobs
    /\ pc' = "save"
    /\ UNCHANGED <<file, current_jobs, added, removed, log, fetch_ok, notified,
                   notify_result, saved, save_result, first_cycle, cycle_prev,
                   cycle_file, interrupted, exit_status>>
    /\ UNCHANGED harnessVars

\* a loop that saves the snapshot without sending the notification first
SaveOpen_BeforeNotify ==
    /\ pc \in {"notify", "save"}
    /\ saved' = TRUE
    /\ file' = FileWith(<<>>)
    /\ pc' = "dump"
    /\ UNCHANGED <<previous_jobs, current_jobs, added, removed, log, fetch_ok, notified,
                   notify_result, save_result, first_cycle, cycle_prev, cycle_file,
                   interrupted, exit_status>>
    /\ UNCHANGED harnessVars

\* _save_current_jobs: open(DATA_FILE, "w") succeeds and truncates the file
SaveOpen ==
    /\ pc = "save"
    /\ saved' = TRUE
    /\ file' = FileWith(<<>>)
    /\ pc' = "dump"
    /\ UNCHANGED <<previous_jobs, current_jobs, added, removed, log, fetch_ok, notified,
                   notify_result, save_result, first_cycle, cycle_prev, cycle_file,
                   interrupted, exit_status>>
    /\ UNCHANGED harnessVars

\* a save without its try/except: the OSError of open() reaches main()
SaveOpenFails_Propagates ==
    /\ pc = "save"
    /\ saved' = TRUE
    /\ save_result' = "open_failed"
    /\ log' = log \cup {"ERROR: Unexpected error in monitor"}
    /\ pc' = "done"
    /\ exit_status' = Exited(EXIT_ERROR)
    /\ UNCHANGED <<previous_jobs, file, current_jobs, added, removed, fetch_ok, notified,
                   notify_result, first_cycle, cycle_prev, cycle_file, interrupted>>
    /\ UNCHANGED harnessVars

\* _save_current_jobs: open(DATA_FILE, "w") raises OSError, which is caught and logged
SaveOpenFails ==
    /\ pc = "save"
    /\ saved' = TRUE
    /\ save_result' = "open_failed"
    /\ log' = log \cup {"WARNING: Failed to save jobs"}
    /\ pc' = "sleep"
    /\ UNCHANGED <<previous_jobs, file, current_jobs, added, removed, fetch_ok, notified,
                   notify_result, first_cycle, cycle_prev, cycle_file, interrupted,
                   exit_status>>
    /\ UNCHANGED harnessVars

\* a save that writes the baseline the cycle started from
SaveDump_Stale ==
    /\ pc = "dump"
    /\ file' = FileWith(json_dump(cycle_prev))
    /\ save_result' = "written"
    /\ pc' = "sleep"
    /\ UNCHANGED <<previous_jobs, current_jobs, added, removed, log, fetch_ok, notified,
                   notify_result, saved, first_cycle, cycle_prev, cycle_file,
                   interrupted, exit_status>>
    /\ UNCHANGED harnessVars

\* _save_current_jobs: json.dump(jobs, f, ...) writes the whole text
SaveDump ==
    /\ pc = "dump"
    /\ file' = FileWith(json_dump(current_jobs))
    /\ save_result' = "written"
    /\ pc' = "sleep"
    /\ UNCHANGED <<previous_jobs, current_jobs, added, removed, log, fetch_ok, notified,
                   notify_result, saved, first_cycle, cycle_prev, cycle_file,
                   interrupted, exit_status>>
    /\ UNCHANGED harnessVars

\* _save_current_jobs: a write of json.dump raises OSError after n tokens (disk
\* full, I/O error), which is caught and logged
SaveDumpFails ==
    /\ pc = "dump"
    /\ \E n \in 0..(Len(json_dump(current_jobs)) - 1) :
        file' = FileWith(SubSeq(json_dump(current_jobs), 1, n))
    /\ save_result' = "write_failed"
    /\ log' = log \cup {"WARNING: Failed to save jobs"}
    /\ pc' = "sleep"
    /\ UNCHANGED <<previous_jobs, current_jobs, added, removed, fetch_ok, notified,
                   notify_result, saved, first_cycle, cycle_prev, cycle_file,
                   interrupted, exit_status>>
    /\ UNCHANGED harnessVars

\* run(): time.sleep(self.check_interval) returns; the next iteration starts
Tick ==
    /\ pc = "sleep"
    /\ pc' = "fetch"
    /\ first_cycle' = FALSE
    /\ log' = {}
    /\ notified' = FALSE
    /\ notify_result' = NotInvoked
    /\ saved' = FALSE
    /\ save_result' = NotInvoked
    /\ cycle_prev' = previous_jobs
    /\ cycle_file' = file
    /\ UNCHANGED <<previous_jobs, file, current_jobs, added, removed, fetch_ok,
                   interrupted, exit_status>>
    /\ UNCHANGED harnessVars

\* run(): KeyboardInterrupt during time.sleep is caught: log, break; main() returns 0
InterruptSleep ==
    /\ pc = "sleep"
    /\ interrupted' = TRUE
    /\ log' = log \cup {"INFO: Monitor interrupted by user; exiting."}
    /\ pc' = "done"
    /\ exit_status' = Exited(EXIT_OK)
    /\ UNCHANGED <<previous_jobs, file, current_jobs, added, removed, fetch_ok, notified,
                   notify_result, saved, save_result, first_cycle, cycle_prev, cycle_file>>
    /\ UNCHANGED harnessVars

\* KeyboardInterrupt during the fetch, the diff, send_email, the assignment or
\* open(): no `except Exception` catches it, neither in the callee nor in run()
\* nor in main(); the interpreter prints the traceback and the process ends
InterruptChecking ==
    /\ pc \in {"fetch", "notify", "update", "save"}
    /\ interrupted' = TRUE
    /\ pc' = "done"
    /\ exit_status' = Exited(EXIT_SIGINT)
    /\ UNCHANGED <<previous_jobs, file, current_jobs, added, removed, log, fetch_ok,
                   notified, notify_result, saved, save_result, first_cycle, cycle_prev,
                   cycle_file>>
    /\ UNCHANGED harnessVars

\* KeyboardInterrupt inside `with open(...)` of _save_current_jobs, after n
\* tokens of json.dump were written: the file is closed as it is
InterruptDump ==
    /\ pc = "dump"
    /\ \E n \in 0..Len(json_dump(current_jobs)) :
        file' = FileWith(SubSeq(json_dump(current_jobs), 1, n))
    /\ save_result' = "interrupted"
    /\ interrupted' = TRUE
    /\ pc' = "done"
    /\ exit_status' = Exited(EXIT_SIGINT)
    /\ UNCHANGED <<previous_jobs, current_jobs, added, removed, log, fetch_ok, notified,
                   notify_result, saved, first_cycle, cycle_prev, cycle_file>>
    /\ UNCHANGED harnessVars

\* the operator starts the script again after it ended ("On the next run, it
\* will pick up where it left off by loading previous_jobs.json"): main() builds
\* a new AmazonJobMonitor from the file as it was left
Restart ==
    /\ pc = "done"
    /\ previous_jobs' = _load_previous_jobs(file).jobs
    /\ log' = _load_previous_jobs(file).log
    /\ pc' = "fetch"
    /\ current_jobs' = EmptyDict
    /\ added' = <<>>
    /\ removed' = <<>>
    /\ fetch_ok' = FALSE
    /\ notified' = FALSE
    /\ notify_result' = NotInvoked
    /\ saved' = FALSE
    /\ save_result' = NotInvoked
    /\ first_cycle' = TRUE
    /\ cycle_prev' = _load_previous_jobs(file).jobs
    /\ cycle_file' = file
    /\ interrupted' = FALSE
    /\ exit_status' = Running
    /\ UNCHANGED file
    /\ UNCHANGED harnessVars

Next ==
    \/ Fetch
    \/ Notify
    \/ NotifyRaises
    \/ UpdateBaseline
    \/ SaveOpen
    \/ SaveOpenFails
    \/ SaveDump
    \/ SaveDumpFails
    \/ Tick
    \/ InterruptSleep
    \/ InterruptChecking
    \/ InterruptDump
    \/ Restart

Spec == Init /\ [][Next]_vars

(***************************************************************************)
(* Differ harness: compare_jobs applied to every pair of bounded mappings  *)
(***************************************************************************)
DiffTitles == {Title_A, Title_B, Title_a, Title_A \o Title_B}
DiffUrls == {urljoin(JOBS_URL, Href_Root1), Href_Rel2}

\* the dicts with n entries, in every insertion order
RECURSIVE DictsOfSize(_)
DictsOfSize(n) ==
    IF n = 0 THEN {EmptyDict}
    ELSE UNION {{Append(d, <<k, u>>) : k \in DiffTitles \ Keys(d), u \in DiffUrls} :
                d \in DictsOfSize(n - 1)}

DiffMappings == UNION {DictsOfSize(n) : n \in 0..MaxDiffKeys}

\* the monitor is not running while the harness is
RunIdle ==
    /\ pc = "harness"
    /\ previous_jobs = EmptyDict
    /\ file = NoFile
    /\ current_jobs = EmptyDict
    /\ added = <<>>
    /\ removed = <<>>
    /\ log = {}
    /\ fetch_ok = FALSE
    /\ notified = FALSE
    /\ notify_result = NotInvoked
    /\ saved = FALSE
    /\ save_result = NotInvoked
    /\ first_cycle = FALSE
    /\ cycle_prev = EmptyDict
    /\ cycle_file = NoFile
    /\ interrupted = FALSE
    /\ exit_status = Running

DiffInit ==
    /\ RunIdle
    /\ StoreIdle
    /\ ExtIdle
    /\ diff_pc = "start"
    /\ diff_A \in DiffMappings
    /\ diff_B \in DiffMappings
    /\ diff_AB = <<<<>>, <<>>>>
    /\ diff_BA = <<<<>>, <<>>>>

\* compare_jobs(B) on a monitor whose previous_jobs is A
DiffForward ==
    /\ diff_pc = "start"
    /\ diff_AB' = compare_jobs(diff_A, diff_B)
    /\ diff_pc' = "forward"
    /\ UNCHANGED <<diff_A, diff_B, diff_BA>>
    /\ UNCHANGED <<runVars, storeVars, extVars>>

\* compare_jobs(A) on a monitor whose previous_jobs is B
DiffBackward ==
    /\ diff_pc = "forward"
    /\ diff_BA' = compare_jobs(diff_B, diff_A)
    /\ diff_pc' = "done"
    /\ UNCHANGED <<diff_A, diff_B, diff_AB>>
    /\ UNCHANGED <<runVars, storeVars, extVars>>

DiffNext ==
    \/ DiffForward
    \/ DiffBackward

DiffSpec == DiffInit /\ [][DiffNext]_vars

(***************************************************************************)
(* Fairness: without an interrupt every call of the loop body returns      *)
(* (the GET has a timeout, the SMTP session and the file write end)        *)
(***************************************************************************)
LiveSpec ==
    /\ Spec
    /\ WF_vars(Fetch)
    /\ WF_vars(Notify \/ NotifyRaises)
    /\ WF_vars(UpdateBaseline)
    /\ WF_vars(SaveOpen \/ SaveOpenFails)
    /\ WF_vars(SaveDump \/ SaveDumpFails)

(***************************************************************************)
(* Properties                                                              *)
(***************************************************************************)
\* the diff of the cycle is not empty
DiffNonEmpty == Len(added) > 0 \/ Len(removed) > 0

\* the snapshot file parses to exactly the mapping m
FileHolds(m) ==
    /\ file.exists
    /\ ~json_load(file.text).raised
    /\ json_load(file.text).isdict
    /\ DictEq(json_load(file.text).data, m)

\* C1: in every cycle the notifier and the snapshot save are invoked if and
\* only if the diff has a non-empty added or removed list; a cycle with an
\* empty diff invokes neither and leaves the file and previous_jobs unchanged.
C1_NotifyAndSaveIffChange ==
    /\ (notified \/ saved) => DiffNonEmpty
    /\ (pc = "sleep" /\ DiffNonEmpty) => (notified /\ saved)
    /\ (pc = "sleep" /\ ~DiffNonEmpty) =>
          (~notified /\ ~saved /\ file = cycle_file /\ previous_jobs = cycle_prev)

\* C1 witnesses: a completed cycle that only lost postings and notified and
\* saved
C1_Witness ==
    pc = "sleep" /\ added = <<>> /\ removed # <<>> /\ notified /\ saved

\* C2 as claimed: after every completed cycle that detected a change the
\* snapshot file holds exactly the mapping extracted in that cycle, whatever
\* the outcome of the save and notify steps.
C2_SnapshotEqualsExtraction ==
    (pc = "sleep" /\ DiffNonEmpty) => FileHolds(current_jobs)

\* C2 amended: after every completed cycle that detected a change and whose
\* snapshot write succeeded, the file holds exactly the mapping extracted in
\* that cycle, whatever the outcome of the notify step.
C2_SnapshotEqualsExtractionWhenWritten ==
    (pc = "sleep" /\ DiffNonEmpty /\ save_result = "written") =>
        (FileHolds(current_jobs) /\ file.text = json_dump(current_jobs))

\* C2 witness: a written snapshot that replaced a non-empty one, with a key
\* gone and a key new, after a notification that was not delivered
C2_Witness ==
    /\ pc = "sleep" /\ save_result = "written"
    /\ added # <<>> /\ removed # <<>>
    /\ notify_result = "delivery_failed"
    /\ FileHolds(current_jobs)

\* C3 as claimed: a cycle whose page fetch failed is skipped: it sends no
\* notification, writes no snapshot and leaves previous_jobs unchanged.
C3_FetchFailureSkipsCycle ==
    (pc = "sleep" /\ ~fetch_ok) =>
        (/\ "ERROR: Error fetching" \in log
         /\ ~notified /\ ~saved
         /\ file = cycle_file
         /\ previous_jobs = cycle_prev)

\* C4 as claimed: an interrupt at any point of the loop ends the process
\* cleanly, main() returning exit status 0.
C4_InterruptExitsCleanly ==
    interrupted => (pc = "done" /\ exit_status = Exited(EXIT_OK))

\* C5 as claimed: after a cancellation the snapshot file is either what it
\* was at the start of the cycle or the complete text of the current
\* extraction, never an empty or cut-off file.
C5_NoPartialSnapshot ==
    interrupted => (file = cycle_file \/ file = FileWith(json_dump(current_jobs)))

\* the process is in the Checking state
InChecking == pc \in {"fetch", "notify", "update", "save", "dump"}

Undelivered == {"skipped_config", "skipped_no_recipients", "delivery_failed"}

\* C7: a notification that cannot be delivered (configuration absent, no
\* recipient left, SMTP failure) makes send_email return normally, and the
\* cycle still updates the baseline and saves the snapshot.
C7_UndeliveredStillSaves ==
    notify_result \in Undelivered =>
        /\ ~interrupted => (pc \in {"update", "save", "dump", "sleep"} /\ exit_status = Running)
        /\ pc = "sleep" => (previous_jobs = current_jobs /\ saved)
        /\ (pc = "sleep" /\ save_result = "written") => FileHolds(current_jobs)

\* C7 witness: a cycle that skipped the email for lack of recipients and
\* wrote the snapshot
C7_Witness ==
    /\ pc = "sleep" /\ notify_result = "skipped_no_recipients"
    /\ save_result = "written" /\ previous_jobs = current_jobs /\ current_jobs # EmptyDict

\* the snapshot file the process started from is absent or does not parse
StartUnparsable == ~cycle_file.exists \/ json_load(cycle_file.text).raised

\* C8: loading an absent or unparsable snapshot gives the empty mapping (with
\* a warning when unparsable) and the first cycle reports every posting of
\* the extraction as added and none as removed.
C8_LoadNeverFails ==
    (first_cycle /\ StartUnparsable) =>
        /\ cycle_prev = EmptyDict
        /\ cycle_file.exists => "WARNING: Failed to load previous jobs" \in log
        /\ removed = <<>>
        /\ Range(added) = Keys(current_jobs)
        /\ Len(added) = Cardinality(Keys(current_jobs))

\* C8 witness: the first cycle after a cut-off snapshot file reports two
\* added postings
C8_Witness ==
    /\ first_cycle /\ cycle_file.exists /\ json_load(cycle_file.text).raised
    /\ cycle_file.text # <<>>
    /\ pc = "sleep" /\ Len(added) = 2 /\ removed = <<>>

\* s is strictly ascending in code-point order
StrictlyAscending(s) == \A i \in 1..(Len(s) - 1) : StrLess(s[i], s[i + 1])

\* C9: compare_jobs returns added = exactly the keys of current not in
\* previous and removed = exactly the keys of previous not in current, each
\* sorted ascending without duplicates, whatever the URLs (same keys,
\* different URLs: empty diff).
C9_DiffIsKeySetDifference ==
    diff_pc \in {"forward", "done"} =>
        /\ Range(diff_AB[1]) = Keys(diff_B) \ Keys(diff_A)
        /\ Range(diff_AB[2]) = Keys(diff_A) \ Keys(diff_B)
        /\ StrictlyAscending(diff_AB[1])
        /\ StrictlyAscending(diff_AB[2])
        /\ Keys(diff_A) = Keys(diff_B) => diff_AB = <<<<>>, <<>>>>

\* C9 witness: two keys added in code-point order ("B" before "a") and one
\* removed
C9_Witness ==
    /\ diff_pc = "forward"
    /\ diff_AB[1] = <<Title_B, Title_a>>
    /\ Len(diff_AB[2]) = 1

\* C10: added and removed of diff(A, B) are disjoint, and added of diff(A, B)
\* equals removed of diff(B, A).
C10_DisjointAndSymmetric ==
    diff_pc = "done" =>
        /\ Range(diff_AB[1]) \cap Range(diff_AB[2]) = {}
        /\ diff_AB[1] = diff_BA[2]

\* C10 witness: mappings that share a key with different URLs and each have a
\* key of their own
C10_Witness ==
    /\ diff_pc = "done"
    /\ diff_AB[1] # <<>> /\ diff_AB[2] # <<>>
    /\ \E k \in Keys(diff_A) \cap Keys(diff_B) :
          DictGet(diff_A, k, <<>>) # DictGet(diff_B, k, <<>>)

\* C11: for every mapping A, diff(A, A) has an empty added list and an empty
\* removed list.
C11_DiffOfSelfIsEmpty ==
    (diff_pc \in {"forward", "done"} /\ diff_A = diff_B) =>
        (diff_AB[1] = <<>> /\ diff_AB[2] = <<>>)

\* C11 witness: a mapping of two entries compared with itself
C11_Witness ==
    /\ diff_pc = "forward" /\ diff_A = diff_B /\ Len(diff_A) = 2
    /\ diff_AB = <<<<>>, <<>>>>

(***************************************************************************)
(* Snapshot Store harness: _save_current_jobs followed by                  *)
(* _load_previous_jobs, for every bounded mapping of strings               *)
(***************************************************************************)
\* a lone surrogate code point (U+D800): part of a Python str, not of UTF-8
SURROGATE == 55296

IsSurrogate(c) == c \in 55296..57343

\* the utf-8 text file accepts the string (open(..., encoding="utf-8") with
\* json.dump(..., ensure_ascii=False) writes the characters unescaped)
Encodable(str) == \A i \in DOMAIN str : ~IsSurrogate(str[i])

\* json.dump writing the members from the i-th on to the text out: it stops
\* with UnicodeEncodeError at the first member the file cannot encode
RECURSIVE WriteMembers(_, _, _)
WriteMembers(jobs, i, out) ==
    IF i > Len(jobs) THEN [raised |-> FALSE, text |-> Append(out, RBrace)]
    ELSE IF ~(Encodable(jobs[i][1]) /\ Encodable(jobs[i][2]))
    THEN [raised |-> TRUE, text |-> out]
    ELSE WriteMembers(jobs, i + 1, Append(out, Member(jobs[i][1], jobs[i][2])))

\* _save_current_jobs(jobs) when open() succeeds and the disk takes every
\* write: the file it leaves and the records it logs
_save_current_jobs(jobs) ==
    LET w == WriteMembers(jobs, 1, <<LBrace>>)
    IN  [file |-> FileWith(w.text),
         log |-> IF w.raised THEN {"WARNING: Failed to save jobs"} ELSE {}]

StoreTitles == {Title_A, Title_B, <<SURROGATE>>}

\* the dicts of strings with n entries, in every insertion order
RECURSIVE StoreDictsOfSize(_)
StoreDictsOfSize(n) ==
    IF n = 0 THEN {EmptyDict}
    ELSE UNION {{Append(d, <<k, u>>) : k \in StoreTitles \ Keys(d), u \in DiffUrls} :
                d \in StoreDictsOfSize(n - 1)}

StoreMappings == UNION {StoreDictsOfSize(n) : n \in 0..MaxStoreKeys}

\* what the file holds before the save
StoreStartFiles ==
    {NoFile, FileWith(<<LBrace>>), FileWith(json_dump(<<<<Title_B, Href_Rel2>>>>))}

StoreInit ==
    /\ RunIdle
    /\ DiffIdle
    /\ ExtIdle
    /\ store_pc = "start"
    /\ store_M \in StoreMappings
    /\ store_file \in StoreStartFiles
    /\ store_loaded = EmptyDict

\* self._save_current_jobs(M)
StoreSave ==
    /\ store_pc = "start"
    /\ store_file' = _save_current_jobs(store_M).file
    /\ store_pc' = "saved"
    /\ UNCHANGED <<store_M, store_loaded>>
    /\ UNCHANGED <<runVars, diffVars, extVars>>

\* self._load_previous_jobs()
StoreLoad ==
    /\ store_pc = "saved"
    /\ store_loaded' = _load_previous_jobs(store_file).jobs
    /\ store_pc' = "loaded"
    /\ UNCHANGED <<store_M, store_file>>
    /\ UNCHANGED <<runVars, diffVars, extVars>>

StoreNext ==
    \/ StoreSave
    \/ StoreLoad

StoreSpec == StoreInit /\ [][StoreNext]_vars

\* C12 as claimed: for every mapping M with string keys and string values,
\* load() after save(M) returns a mapping equal to M.
C12_RoundTrip ==
    store_pc = "loaded" => DictEq(store_loaded, store_M)

(***************************************************************************)
(* Extractor harness: fetch_rheinland_jobs on every bounded page           *)
(***************************************************************************)
ExtPages == UNION {[1..n -> NodeSet] : n \in 0..MaxDocLen}

ExtInit ==
    /\ RunIdle
    /\ DiffIdle
    /\ StoreIdle
    /\ ext_pc = "start"
    /\ ext_page \in ExtPages
    /\ ext_result = EmptyDict

\* self.fetch_rheinland_jobs() when the GET returns the page
Extract ==
    /\ ext_pc = "start"
    /\ ext_result' = fetch_rheinland_jobs([ok |-> TRUE, page |-> ext_page]).jobs
    /\ ext_pc' = "done"
    /\ UNCHANGED ext_page
    /\ UNCHANGED <<runVars, diffVars, storeVars>>

ExtNext ==
    \/ Extract

ExtSpec == ExtInit /\ [][ExtNext]_vars

\* a URL with a scheme and an authority ("x://...")
IsAbsoluteUrl(u) ==
    \E i \in 2..(Len(u) - 2) :
        /\ u[i] = COLON /\ u[i + 1] = SLASH /\ u[i + 2] = SLASH
        /\ \A j \in 1..(i - 1) : u[j] \notin {COLON, SLASH}

\* C13 as claimed: every value of the mapping returned by the extractor is an
\* absolute URL, every relative href being resolved against the base URL.
C13_ValuesAreAbsolute ==
    ext_pc = "done" => \A i \in DOMAIN ext_result : IsAbsoluteUrl(ext_result[i][2])

\* element h is the first h3/h4 heading of the page whose text has the marker
IsSelectedHeading(page, h) ==
    /\ h \in DOMAIN page
    /\ IsTrackedHeading(page[h]) /\ Contains(page[h].text, MARKER)
    /\ \A j \in 1..(h - 1) : ~(IsTrackedHeading(page[j]) /\ Contains(page[j].text, MARKER))

\* element i lies after the selected heading and before the next h3/h4 heading
InSpan(page, i) ==
    \E h \in 1..(i - 1) :
        /\ IsSelectedHeading(page, h)
        /\ \A j \in (h + 1)..i : ~IsTrackedHeading(page[j])

\* the link elements of the span
SpanLinks(page) == {i \in DOMAIN page : page[i].name = "a" /\ InSpan(page, i)}

\* the link elements of the span that carry a non-empty href
SpanHrefLinks(page) ==
    {i \in SpanLinks(page) : page[i].has_href /\ page[i].href # <<>>}

\* the URL stored for a link: a root-relative href joined to JOBS_URL, any
\* other href as it is
StoredUrl(node) ==
    IF startswith(node.href, SLASH) THEN urljoin(JOBS_URL, node.href) ELSE node.href

\* C14 as claimed: the mapping is built from exactly the link elements after
\* the first marked heading and before the next heading: every link of the
\* span is collected, no link outside of it.
C14_ExactlyTheSpanLinks ==
    ext_pc = "done" =>
        Keys(ext_result) = {Strip(ext_page[i].text) : i \in SpanLinks(ext_page)}

\* C14 amended: the mapping is built from exactly the link elements with a
\* non-empty href after the first marked heading and before the next heading.
C14_ExactlyTheSpanHrefLinks ==
    ext_pc = "done" =>
        /\ Keys(ext_result) = {Strip(ext_page[i].text) : i \in SpanHrefLinks(ext_page)}
        /\ \A e \in DOMAIN ext_result :
              \E i \in SpanHrefLinks(ext_page) :
                  /\ Strip(ext_page[i].text) = ext_result[e][1]
                  /\ StoredUrl(ext_page[i]) = ext_result[e][2]

\* C14 witness: a link, the marked heading, a link, another heading, a link
\* with another key: only the middle link is in the result
C14_Witness ==
    /\ ext_pc = "done" /\ Len(ext_page) = 5
    /\ IsSelectedHeading(ext_page, 2) /\ IsTrackedHeading(ext_page[4])
    /\ SpanHrefLinks(ext_page) = {3}
    /\ \A i \in {1, 5} :
          /\ ext_page[i].name = "a" /\ ext_page[i].has_href
          /\ Strip(ext_page[i].text) # Strip(ext_page[3].text)
    /\ Len(ext_result) = 1

\* the last collected link of the page with key k
LastWithKey(page, k) ==
    CHOOSE i \in SpanHrefLinks(page) :
        /\ Strip(page[i].text) = k
        /\ \A j \in SpanHrefLinks(page) : Strip(page[j].text) = k => j <= i

\* C16: links that derive the same key give one entry, whose URL is that of
\* the last such link in document order; the mapping has as many entries as
\* there are distinct keys among the collected links.
C16_LastKeyWins ==
    ext_pc = "done" =>
        /\ Len(ext_result) =
              Cardinality({Strip(ext_page[i].text) : i \in SpanHrefLinks(ext_page)})
        /\ \A e \in DOMAIN ext_result :
              ext_result[e][2] = StoredUrl(ext_page[LastWithKey(ext_page, ext_result[e][1])])

\* C16 witness: two collected links with the same key and different URLs,
\* the entry holding the URL of the second
C16_Witness ==
    /\ ext_pc = "done" /\ Len(ext_result) = 1
    /\ \E i, j \in SpanHrefLinks(ext_page) :
          /\ i < j
          /\ Strip(ext_page[i].text) = Strip(ext_page[j].text)
          /\ StoredUrl(ext_page[i]) # StoredUrl(ext_page[j])
          /\ ext_result[1][2] = StoredUrl(ext_page[j])

(***************************************************************************)
(* Properties of the monitor loop, continued                               *)
(***************************************************************************)
\* the extraction of this cycle did not find the region heading
HeadingAbsent == "WARNING: section not found" \in log

\* C15: when the region heading is absent the extraction is empty; with a
\* non-empty previous snapshot the cycle reports every previous key as
\* removed and none as added, invokes the notifier, and overwrites the
\* baseline and (the write succeeding) the snapshot file with the empty mapping.
C15_HeadingAbsentRemovesAll ==
    (HeadingAbsent /\ cycle_prev # EmptyDict) =>
        /\ current_jobs = EmptyDict
        /\ added = <<>>
        /\ Range(removed) = Keys(cycle_prev)
        /\ Len(removed) = Cardinality(Keys(cycle_prev))
        /\ pc \in {"update", "save", "dump", "sleep"} => notified
        /\ pc = "sleep" => (saved /\ previous_jobs = EmptyDict)
        /\ (pc = "sleep" /\ save_result = "written") => file = FileWith(<<LBrace, RBrace>>)

\* C15 witness: a snapshot of two postings wiped by a page without the heading
C15_Witness ==
    /\ pc = "sleep" /\ HeadingAbsent
    /\ Len(cycle_prev) = 2 /\ Len(removed) = 2
    /\ notified /\ save_result = "written" /\ file = FileWith(<<LBrace, RBrace>>)
    /\ previous_jobs = EmptyDict

\* previous_jobs equals what load() would return from the file now
MemoryEqualsDisk == DictEq(previous_jobs, _load_previous_jobs(file).jobs)

\* C17 as claimed: at every Idle state the in-memory baseline equals what
\* load() would return from the snapshot file, also after a cycle whose
\* snapshot write failed.
C17_MemoryEqualsDisk ==
    pc = "sleep" => MemoryEqualsDisk

\* C17 amended: baseline and file agree when the process starts, and a cycle
\* that starts with them in agreement and whose snapshot write does not fail
\* ends at Idle with them in agreement.
C17_MemoryEqualsDiskUnlessWriteFailed ==
    /\ first_cycle => DictEq(cycle_prev, _load_previous_jobs(cycle_file).jobs)
    /\ (/\ pc = "sleep"
        /\ DictEq(cycle_prev, _load_previous_jobs(cycle_file).jobs)
        /\ save_result \in {NotInvoked, "written"}) => MemoryEqualsDisk

\* C17 witness: a later cycle that replaced a non-empty snapshot, file and
\* baseline agreeing before and after
C17_Witness ==
    /\ pc = "sleep" /\ ~first_cycle /\ save_result = "written"
    /\ cycle_prev # EmptyDict
    /\ DictEq(cycle_prev, _load_previous_jobs(cycle_file).jobs)
    /\ ~DictEq(previous_jobs, cycle_prev) /\ previous_jobs # EmptyDict
    /\ MemoryEqualsDisk

\* C18: the snapshot file is written only in a cycle that detected a change,
\* after send_email was invoked and has returned, and only with (a prefix of)
\* the text of that cycle's extraction; a process started again takes its
\* baseline from the file as it was left, so a change that was not notified
\* is not in the snapshot and is detected again.
C18_NotifyBeforeWrite ==
    /\ [][(file' # file) =>
            /\ notified /\ notify_result # NotInvoked
            /\ pc \in {"save", "dump"}
            /\ (Len(added) > 0 \/ Len(removed) > 0)
            /\ \E n \in 0..Len(json_dump(current_jobs)) :
                  file' = FileWith(SubSeq(json_dump(current_jobs), 1, n))]_vars
    /\ [](first_cycle => cycle_prev = _load_previous_jobs(cycle_file).jobs)

\* C18 witness: a process started again on a file cut off by an interrupt
\* detects the change again
C18_Witness ==
    /\ first_cycle /\ pc = "notify" /\ added # <<>>
    /\ cycle_file.exists /\ cycle_file \notin StartFiles
    /\ json_load(cycle_file.text).raised

\* C19: a cycle of the same process whose extraction has the key set of the
\* previous cycle's extraction invokes neither the notifier nor the save,
\* whatever happened in the previous cycle.
C19_NoRepeatedAlert ==
    [][(/\ pc = "fetch" /\ ~first_cycle
        /\ pc' \in {"notify", "sleep"}
        /\ Keys(current_jobs') = Keys(current_jobs)) =>
           (/\ pc' = "sleep" /\ added' = <<>> /\ removed' = <<>>
            /\ ~notified' /\ ~saved')]_vars

\* C19 witness: Idle after a cycle without alert, the baseline being an
\* extraction that the file does not hold (its write failed earlier)
C19_Witness ==
    /\ pc = "sleep" /\ ~first_cycle /\ ~notified /\ ~saved
    /\ current_jobs # EmptyDict /\ Keys(previous_jobs) = Keys(current_jobs)
    /\ ~MemoryEqualsDisk

====
